---- MODULE Spec2Model ----
(***************************************************************************)
(* A model of the AI-Assistant frontend: the persisted application store   *)
(* (store/appStore.ts), the notebook execution controller                  *)
(* (DatabricksNotebook), the upload flows (UploadZone and                  *)
(* AddDataSourceDropdown) and the chat panel (AIAssistant, chatService).   *)
(*                                                                         *)
(* Texts are sequences of tokens.  A token is one character, except that   *)
(* a run of three backticks and the literals "Suggestions:" and            *)
(* "Suggested Next Steps:" are one token each.                             *)
(***************************************************************************)
EXTENDS Integers, Sequences, FiniteSets, TLC

VARIABLES
  \* ---- store/appStore.ts: the zustand store and its persisted record
  dataSources, isConnected, queries, activeQueryId, aiMessages,
  isSidebarCollapsed, isAIPanelCollapsed, aiScrollPosition,
  activeArtifact, activeArtifactCode,
  storage,      \* the record under the key 'analytix-storage'
  uuid,         \* how many identifiers crypto.randomUUID() has handed out
  \* ---- history of the addQuery calls (read by the numbering claims only)
  addFromInit,  \* no removeQuery has been called since the initial state
  addBase,      \* the query count when the current run of addQuery calls began
  addNumbers,   \* the numbers returned by the addQuery calls of the run
  lastOp,       \* the operation of the last step
  \* ---- DatabricksNotebook: component state and its pending async handlers
  clusterId, cells,
  procs,        \* the invocations of executeCell and runAll awaiting a reply
  nextPid,      \* how many such invocations have started
  nextCellId,   \* the next identifier addCell draws
  edits,        \* how many times the user has edited the cell list
  \* ---- ClusterSelector: component state and its pending requests
  clusters, loading,
  clusterCalls, \* the listings, starts and stops that await a reply
  \* ---- UploadZone and AddDataSourceDropdown: the upload batches
  uploads,      \* the batches that await the reply to an upload request
  nextBid,      \* how many batches have started
  zoneUploading,\* isUploading of the mounted UploadZone
  dropUploading,\* isUploading of the mounted AddDataSourceDropdown
  removed,      \* the ids removeDataSource was called with
  \* ---- AIAssistant and chatService: the chat panel
  sends,        \* the invocations of handleSend that await the reply
  nextSid,      \* how many such invocations have started
  isTyping, input, shouldAutoScroll,
  scrollTop,    \* of the messages container, in half pixels
  listenerAttached, \* the container in the page has the scroll listener
  currentSessionId, \* chatService's module variable
  mounted       \* the effects of the chat panel's mount have run

storeVars == <<dataSources, isConnected, queries, activeQueryId, aiMessages,
               isSidebarCollapsed, isAIPanelCollapsed, aiScrollPosition,
               activeArtifact, activeArtifactCode, storage, uuid>>
histVars == <<addFromInit, addBase, addNumbers, lastOp>>

clVars == <<clusters, loading, clusterCalls>>
nbVars == <<clusterId, cells, procs, nextPid, nextCellId, edits, clVars>>

upVars == <<uploads, nextBid, zoneUploading, dropUploading, removed>>

chatVars == <<sends, nextSid, isTyping, input, shouldAutoScroll, scrollTop,
              listenerAttached, currentSessionId, mounted>>

vars == <<storeVars, histVars, nbVars, upVars, chatVars>>

(***************************************************************************)
(* Bounds of the model.                                                    *)
(***************************************************************************)
MaxUuid == 2          \* identifiers handed out in one behaviour
MaxProcs == 2         \* invocations of executeCell and runAll that await a reply
MaxEdits == 1         \* edits of the cell list (add, change, delete, move)
MaxBatches == 2       \* upload batches started in one behaviour
MaxFiles == 3         \* files of one batch
MaxRemovals == 1      \* calls of removeDataSource
MaxSends == 2         \* messages sent where the scrolling is explored
MaxParsedSends == 1   \* messages sent where the replies are explored
MaxBlocks == 2        \* fenced blocks of one reply
MaxLines == 2         \* lines of the suggestions section of one reply
MaxSent == 1          \* messages sent to the sandbox after the chat's messages
ClientHeight == 400   \* height of the messages container, in pixels
MessageHeight == 350  \* height of one message, in pixels

(***************************************************************************)
(* Values.                                                                 *)
(***************************************************************************)
Null == <<"null", 0>>
None == <<>>
Some(x) == <<x>>
DemoQueryId(k) == <<"demo-query", k>>
Uuid(n) == <<"uuid", n>>

\* new Date() is a Date object; JSON.stringify writes it as an ISO string and
\* JSON.parse gives the string back (zustand's default storage revives nothing).
NewDate == "Date"
ToJSONDate(d) == "iso"

Range(s) == {s[i] : i \in DOMAIN s}
Map(s, F(_)) == [i \in DOMAIN s |-> F(s[i])]

(***************************************************************************)
(* The persist middleware: after every set() the partialized state is      *)
(* written as JSON (appStore.ts 289-298).  The first set() is the          *)
(* setAIScrollPosition of the chat panel's mount (AIAssistant.tsx 47-54).  *)
(***************************************************************************)
SerSource(s) == [s EXCEPT !.connectedAt = ToJSONDate(@)]
SerQuery(q) == [q EXCEPT !.createdAt = ToJSONDate(@), !.updatedAt = ToJSONDate(@)]
SerMessage(m) == [m EXCEPT !.timestamp = ToJSONDate(@)]

Partialize_NoPosition(ds, qs, ms, conn, pos) ==
  [dataSources |-> Map(ds, SerSource),
   queries |-> Map(qs, SerQuery),
   aiMessages |-> Map(ms, SerMessage),
   isConnected |-> conn,
   aiScrollPosition |-> 0]
Partialize_NoMessages(ds, qs, ms, conn, pos) ==
  [dataSources |-> Map(ds, SerSource),
   queries |-> Map(qs, SerQuery),
   aiMessages |-> <<>>,
   isConnected |-> conn,
   aiScrollPosition |-> pos]
Partialize(ds, qs, ms, conn, pos) ==
  [dataSources |-> Map(ds, SerSource),
   queries |-> Map(qs, SerQuery),
   aiMessages |-> Map(ms, SerMessage),
   isConnected |-> conn,
   aiScrollPosition |-> pos]

Persist ==
  storage' = Partialize(dataSources', queries', aiMessages', isConnected',
                        aiScrollPosition')

(***************************************************************************)
(* The initial state of the store (appStore.ts 76-288).                    *)
(***************************************************************************)
\* The three demo queries have three different codes.
DemoCode(k) ==
  << IF k = 1 THEN "demo-code-1" ELSE IF k = 2 THEN "demo-code-2" ELSE "demo-code-3" >>

DemoQuery(k, arts) ==
  [id |-> DemoQueryId(k), number |-> k,
   prompt |-> <<"demo-prompt">>, code |-> DemoCode(k),
   output |-> <<"demo-output">>, artifacts |-> arts,
   createdAt |-> NewDate, updatedAt |-> NewDate]

DemoQueries ==
  << DemoQuery(1, <<>>), DemoQuery(2, <<"chart">>), DemoQuery(3, <<"model">>) >>

StoreInit ==
  /\ dataSources = <<>>
  /\ isConnected = FALSE
  /\ queries = DemoQueries
  /\ activeQueryId = DemoQueryId(1)
  /\ aiMessages = <<>>
  /\ isSidebarCollapsed = FALSE
  /\ isAIPanelCollapsed = FALSE
  /\ aiScrollPosition = 0
  /\ activeArtifact = Null
  /\ activeArtifactCode = Null
  /\ storage = Partialize(dataSources, queries, aiMessages, isConnected,
                          aiScrollPosition)
  /\ uuid = 0

Op(name) == [op |-> name]

HistInit ==
  /\ addFromInit = TRUE
  /\ addBase = Len(DemoQueries)
  /\ addNumbers = <<>>
  /\ lastOp = Op("init")

\* The fields of the store one mutation leaves alone.
SourcesSame == UNCHANGED <<dataSources, isConnected>>
QueriesSame == UNCHANGED <<queries, activeQueryId>>
UISame == UNCHANGED <<isSidebarCollapsed, isAIPanelCollapsed, aiScrollPosition,
                      activeArtifact, activeArtifactCode>>

(***************************************************************************)
(* Queries (appStore.ts 209-247).                                          *)
(***************************************************************************)
QueryIds == {DemoQueryId(k) : k \in 1..Len(DemoQueries)} \cup {Uuid(n) : n \in 1..MaxUuid + 1}
Prompts == {<<"w">>}
Codes == {<<"w">>}
QueryUpdates == {[output |-> <<"out">>]}

NewQueryNumber_Count == Len(queries)
NewQueryNumber == Len(queries) + 1

NewQuery(prompt, code) ==
  [id |-> Uuid(uuid + 1), number |-> NewQueryNumber,
   prompt |-> prompt, code |-> code, output |-> <<>>, artifacts |-> <<>>,
   createdAt |-> NewDate, updatedAt |-> NewDate]

addQuery(prompt, code) ==
  /\ uuid' = uuid + 1
  /\ queries' = Append(queries, NewQuery(prompt, code))
  /\ activeQueryId' = NewQuery(prompt, code).id
  /\ addNumbers' = Append(addNumbers, NewQuery(prompt, code).number)
  /\ lastOp' = Op("addQuery")
  /\ UNCHANGED <<addFromInit, addBase, aiMessages>>
  /\ SourcesSame /\ UISame
  /\ Persist

Merge(q, updates) ==
  [f \in DOMAIN q |-> IF f \in DOMAIN updates THEN updates[f] ELSE q[f]]

updateQuery(id, updates) ==
  /\ queries' = [i \in DOMAIN queries |->
                   IF queries[i].id = id
                   THEN [Merge(queries[i], updates) EXCEPT !.updatedAt = NewDate]
                   ELSE queries[i]]
  /\ lastOp' = Op("other")
  /\ UNCHANGED <<activeQueryId, aiMessages, uuid, addFromInit, addBase, addNumbers>>
  /\ SourcesSame /\ UISame
  /\ Persist

ActiveAfterRemove_Always(id) == Null
ActiveAfterRemove(id) == IF activeQueryId = id THEN Null ELSE activeQueryId

removeQuery(id) ==
  /\ queries' = SelectSeq(queries, LAMBDA q : q.id # id)
  /\ activeQueryId' = ActiveAfterRemove(id)
  /\ addFromInit' = FALSE
  /\ addBase' = Len(queries')
  /\ addNumbers' = <<>>
  /\ lastOp' = [op |-> "removeQuery", wasActive |-> (activeQueryId = id)]
  /\ UNCHANGED <<aiMessages, uuid>>
  /\ SourcesSame /\ UISame
  /\ Persist

setActiveQuery(id) ==
  /\ activeQueryId' = id
  /\ lastOp' = Op("other")
  /\ UNCHANGED <<queries, aiMessages, uuid, addFromInit, addBase, addNumbers>>
  /\ SourcesSame /\ UISame
  /\ Persist

\* getActiveQuery(): the first query with the active id, or null.
Find(qs, id) ==
  IF \E i \in DOMAIN qs : qs[i].id = id
  THEN Some(qs[CHOOSE i \in DOMAIN qs :
                  qs[i].id = id /\ \A j \in 1..(i - 1) : qs[j].id # id])
  ELSE None
getActiveQuery == Find(queries, activeQueryId)


(***************************************************************************)
(* The notebook (DatabricksNotebook).  A handler reads `cells` and         *)
(* `clusterId` of the render it was created in: an invocation that awaits  *)
(* a reply keeps that snapshot, and setCells(cells.map(...)) after the     *)
(* await writes the snapshot back, while setCells(prev => ...) updates the *)
(* current list.                                                           *)
(***************************************************************************)
NoCluster == "undefined"
ClusterIds == {"cluster-1"}

Cell(id, code, output, status, type) ==
  [id |-> id, code |-> code, output |-> output, status |-> status, type |-> type]

DefaultCode == <<"default-code">>
SeedCode(q) == IF q # None /\ q[1].code # <<>> THEN q[1].code ELSE DefaultCode

InitialCells(q) ==
  << Cell(1, <<"spark-code">>, Some(<<"SparkSession - active">>), "success", "code"),
     Cell(2, <<"overview">>, None, "success", "markdown"),
     Cell(3, SeedCode(q), None, "idle", "code") >>

\* What databricksService.executeCode resolves to.
Results ==
  { [status |-> "success", output |-> Some(<<"out">>), error |-> None],
    [status |-> "error", output |-> Some(<<"out">>), error |-> Some(<<"err">>)] }

ResultOutput(r) == IF r.error # None /\ r.error[1] # <<>> THEN r.error ELSE r.output
ResultStatus(r) == IF r.status = "error" THEN "error" ELSE "success"

CellEdits == {<<"edited">>}

\* loadClusters up to its await (ClusterSelector.tsx 22-25): the request
\* keeps the selectedId of the render it was made in.
ListCall(selectedId) == [kind |-> "list", selectedId |-> selectedId]

\* The selector's effect has run: the listing of the mount is pending
\* (ClusterSelector.tsx 15-20).
ClusterInit ==
  /\ clusters = <<>>
  /\ loading = TRUE
  /\ clusterCalls = {ListCall(NoCluster)}

NotebookInit ==
  /\ ClusterInit
  /\ clusterId = NoCluster
  /\ cells = InitialCells(Find(DemoQueries, DemoQueryId(1)))
  /\ procs = {}
  /\ nextPid = 0
  /\ nextCellId = 4
  /\ edits = 0

CellIds(cs) == {cs[i].id : i \in DOMAIN cs}
CellOf(cs, id) == cs[CHOOSE i \in DOMAIN cs : cs[i].id = id]
SetCell(cs, id, F(_)) == [i \in DOMAIN cs |-> IF cs[i].id = id THEN F(cs[i]) ELSE cs[i]]

\* Every step of the notebook that does not belong to a pending runAll
\* marks that runAll as no longer running alone.
Disturbed(ps) == {[p EXCEPT !.alone = FALSE] : p \in ps}

NewProc(kind, id, at, issued) ==
  [pid |-> nextPid + 1, kind |-> kind, cells |-> cells, clusterId |-> clusterId,
   id |-> id, at |-> at, issued |-> issued, alone |-> TRUE]

NbStoreSame ==
  UNCHANGED <<storeVars, addFromInit, addBase, addNumbers, upVars, chatVars, clVars>>

onSelect(cid) ==
  /\ clusterId' = cid
  /\ procs' = Disturbed(procs)
  /\ lastOp' = Op("other")
  /\ UNCHANGED <<cells, nextPid, nextCellId, edits>>
  /\ NbStoreSame

Edit(newCells, name) ==
  /\ edits < MaxEdits
  /\ edits' = edits + 1
  /\ cells' = newCells
  /\ procs' = Disturbed(procs)
  /\ lastOp' = Op("other")
  /\ UNCHANGED <<clusterId, nextPid>>
  /\ NbStoreSame

addCell(type) ==
  /\ nextCellId' = nextCellId + 1
  /\ Edit(Append(cells, Cell(nextCellId,
                             IF type = "code" THEN <<>> ELSE <<"### New Markdown Cell">>,
                             None, "idle", type)),
          "addCell")

handleCellChange(id, value) ==
  /\ Edit(SetCell(cells, id, LAMBDA c : [c EXCEPT !.code = value]), "handleCellChange")
  /\ UNCHANGED nextCellId

onDelete(id) ==
  /\ Edit(SelectSeq(cells, LAMBDA c : c.id # id), "onDelete")
  /\ UNCHANGED nextCellId

Swap(cs, i, j) == [cs EXCEPT ![i] = cs[j], ![j] = cs[i]]

onMoveUp(index) ==
  /\ index # 1
  /\ Edit(Swap(cells, index, index - 1), "onMoveUp")
  /\ UNCHANGED nextCellId

onMoveDown(index) ==
  /\ index # Len(cells)
  /\ Edit(Swap(cells, index, index + 1), "onMoveDown")
  /\ UNCHANGED nextCellId

\* `!clusterId` (part_003 71)
NoClusterSelected_Never == FALSE
NoClusterSelected == clusterId = NoCluster

RunCell(id, toast, request) ==
  [op |-> "executeCell", id |-> id, type |-> CellOf(cells, id).type,
   clusterId |-> clusterId, pre |-> cells, toast |-> toast, request |-> request]

\* executeCell(id), up to its await (part_003 61-79).
executeCell(id) ==
  LET cell == CellOf(cells, id) IN
  /\ UNCHANGED <<clusterId, nextCellId, edits>>
  /\ NbStoreSame
  /\ IF cell.type = "markdown"
     THEN /\ cells' = SetCell(cells, id, LAMBDA c : [c EXCEPT !.status = "success"])
          /\ procs' = Disturbed(procs)
          /\ lastOp' = RunCell(id, FALSE, FALSE)
          /\ UNCHANGED nextPid
     ELSE IF NoClusterSelected
     THEN /\ lastOp' = RunCell(id, TRUE, FALSE)
          /\ procs' = Disturbed(procs)
          /\ UNCHANGED <<cells, nextPid>>
     ELSE /\ nextPid < MaxProcs
          /\ nextPid' = nextPid + 1
          /\ cells' = SetCell(cells, id,
                              LAMBDA c : [c EXCEPT !.status = "running", !.output = None])
          /\ procs' = Disturbed(procs) \cup {NewProc("executeCell", id, 0, <<id>>)}
          /\ lastOp' = RunCell(id, FALSE, TRUE)

\* The reply to executeCell's request: the handler writes its snapshot back
\* with the cell's result in it (part_003 81-85).
executeCellResolved(p, r) ==
  /\ p.kind = "executeCell"
  /\ cells' = SetCell(p.cells, p.id,
                      LAMBDA c : [c EXCEPT !.status = ResultStatus(r),
                                           !.output = ResultOutput(r)])
  /\ procs' = Disturbed(procs \ {p})
  /\ lastOp' = Op("other")
  /\ UNCHANGED <<clusterId, nextPid, nextCellId, edits>>
  /\ NbStoreSame

\* The request failed (part_003 87-94).
executeCellRejected(p) ==
  /\ p.kind = "executeCell"
  /\ cells' = SetCell(p.cells, p.id,
                      LAMBDA c : [c EXCEPT !.status = "error",
                                           !.output = Some(<<"Failed to execute code">>)])
  /\ procs' = Disturbed(procs \ {p})
  /\ lastOp' = Op("other")
  /\ UNCHANGED <<clusterId, nextPid, nextCellId, edits>>
  /\ NbStoreSame

\* runAll (part_003 97-137).  The loop runs over the snapshot p.cells; every
\* setCells of it is a functional update of the current list.
ResetStatus_Idle(c) == [c EXCEPT !.status = "idle"]
ResetStatus(c) ==
  [c EXCEPT !.status = IF c.status = "running" THEN "running" ELSE "idle"]

MarkRunning(cs, id) == SetCell(cs, id, LAMBDA c : [c EXCEPT !.status = "running"])

RunAllEnded(p, at, outcome) ==
  [op |-> "runAll:ended", outcome |-> outcome, pid |-> p.pid, pre |-> p.cells,
   at |-> at, issued |-> p.issued, alone |-> p.alone]

\* The loop reaches the cell at index `at` of the snapshot, or its end.
RunAllEnter(p, cs, at, others) ==
  IF at > Len(p.cells)
  THEN /\ cells' = cs
       /\ procs' = others
       /\ lastOp' = RunAllEnded(p, at - 1, "done")
  ELSE /\ cells' = MarkRunning(cs, p.cells[at].id)
       /\ procs' = others \cup
            {[p EXCEPT !.at = at,
                       !.issued = IF p.cells[at].type = "markdown"
                                  THEN @ ELSE Append(@, p.cells[at].id)]}
       /\ lastOp' = Op("other")

runAll ==
  /\ UNCHANGED <<clusterId, nextCellId, edits>>
  /\ NbStoreSame
  /\ IF clusterId = NoCluster
     THEN /\ lastOp' = Op("toast.error")
          /\ procs' = Disturbed(procs)
          /\ UNCHANGED <<cells, nextPid>>
     ELSE /\ nextPid < MaxProcs
          /\ nextPid' = nextPid + 1
          /\ RunAllEnter(NewProc("runAll", 0, 0, <<>>), Map(cells, ResetStatus), 1,
                         Disturbed(procs))

\* The 200 ms timer of a markdown cell fires (part_003 111-116).
runAllMarkdownDone(p) ==
  /\ p.kind = "runAll"
  /\ p.cells[p.at].type = "markdown"
  /\ RunAllEnter(p,
                 SetCell(cells, p.cells[p.at].id, LAMBDA c : [c EXCEPT !.status = "success"]),
                 p.at + 1, Disturbed(procs \ {p}))
  /\ UNCHANGED <<clusterId, nextPid, nextCellId, edits>>
  /\ NbStoreSame

\* The reply for a code cell (part_003 118-130).
runAllResolved(p, r) ==
  LET isError == r.status = "error"
      cs == SetCell(cells, p.cells[p.at].id,
                    LAMBDA c : [c EXCEPT !.status = IF isError THEN "error" ELSE "success",
                                         !.output = ResultOutput(r)])
  IN
  /\ p.kind = "runAll"
  /\ p.cells[p.at].type = "code"
  /\ IF isError
     THEN /\ cells' = cs
          /\ procs' = Disturbed(procs \ {p})
          /\ lastOp' = RunAllEnded(p, p.at, "error")
     ELSE RunAllEnter(p, cs, p.at + 1, Disturbed(procs \ {p}))
  /\ UNCHANGED <<clusterId, nextPid, nextCellId, edits>>
  /\ NbStoreSame

\* The request failed (part_003 132-135).
runAllRejected(p) ==
  /\ p.kind = "runAll"
  /\ p.cells[p.at].type = "code"
  /\ cells' = SetCell(cells, p.cells[p.at].id,
                      LAMBDA c : [c EXCEPT !.status = "error",
                                           !.output = Some(<<"System Error during Run All">>)])
  /\ procs' = Disturbed(procs \ {p})
  /\ lastOp' = RunAllEnded(p, p.at, "rejected")
  /\ UNCHANGED <<clusterId, nextPid, nextCellId, edits>>
  /\ NbStoreSame

AllIdle(cs) == Map(cs, LAMBDA c : [c EXCEPT !.status = "idle", !.output = None])

\* restartKernel (part_003 139-152): the request is not awaited.
restartKernel ==
  /\ clusterId # NoCluster
  /\ cells' = AllIdle(cells)
  /\ procs' = Disturbed(procs)
  /\ lastOp' = Op("restartKernel")
  /\ UNCHANGED <<clusterId, nextPid, nextCellId, edits>>
  /\ NbStoreSame

clearOutputs ==
  /\ cells' = AllIdle(cells)
  /\ procs' = Disturbed(procs)
  /\ lastOp' = Op("other")
  /\ UNCHANGED <<clusterId, nextPid, nextCellId, edits>>
  /\ NbStoreSame

RunNext ==
  \/ \E cid \in ClusterIds : onSelect(cid)
  \/ \E id \in CellIds(cells) : executeCell(id)
  \/ \E p \in procs, r \in Results : executeCellResolved(p, r)
  \/ \E p \in procs : executeCellRejected(p)
  \/ runAll
  \/ \E p \in procs : runAllMarkdownDone(p)
  \/ \E p \in procs, r \in Results : runAllResolved(p, r)
  \/ \E p \in procs : runAllRejected(p)
  \/ restartKernel
  \/ clearOutputs

EditNext ==
  \/ \E type \in {"code", "markdown"} : addCell(type)
  \/ \E id \in CellIds(cells), v \in CellEdits : handleCellChange(id, v)
  \/ \E id \in CellIds(cells) : onDelete(id)
  \/ \E index \in DOMAIN cells : onMoveUp(index)
  \/ \E index \in DOMAIN cells : onMoveDown(index)

NotebookNext == RunNext \/ EditNext

(***************************************************************************)
(* The cluster selector of the notebook's toolbar (ClusterSelector.tsx).   *)
(***************************************************************************)
ListedIds == <<"cluster-1", "cluster-2">>
ClusterStates == {"RUNNING", "TERMINATED", "PENDING", "TERMINATING"}

\* What databricksService.listClusters resolves to: no cluster, or the two
\* clusters, each in any state.
Listings ==
  {<<>>} \cup
  {[i \in DOMAIN ListedIds |-> [cluster_id |-> ListedIds[i], state |-> st[i]]] :
     st \in [DOMAIN ListedIds -> ClusterStates]}

ClusterRestSame ==
  /\ UNCHANGED <<cells, nextPid, nextCellId, edits>>
  /\ UNCHANGED <<storeVars, addFromInit, addBase, addNumbers, upVars, chatVars>>

\* The refresh button, disabled while loading (ClusterSelector.tsx 120-128).
loadClusters ==
  /\ ~loading
  /\ loading' = TRUE
  /\ clusterCalls' = clusterCalls \cup {ListCall(clusterId)}
  /\ lastOp' = Op("other")
  /\ UNCHANGED <<clusterId, procs, clusters>>
  /\ ClusterRestSame

\* data.find(c => c.state === 'RUNNING')
FirstRunning(data) ==
  IF \E i \in DOMAIN data : data[i].state = "RUNNING"
  THEN Some(data[CHOOSE i \in DOMAIN data :
                   /\ data[i].state = "RUNNING"
                   /\ \A j \in 1..(i - 1) : data[j].state # "RUNNING"].cluster_id)
  ELSE None

\* `!selectedId` (ClusterSelector.tsx 28): the selectedId of the render
\* loadClusters was called in.
NoneSelected(call) == call.selectedId = NoCluster

Listed(call, data) ==
  [op |-> "loadClusters", selectedId |-> call.selectedId, was |-> clusterId,
   data |-> data]

\* The listing arrives (ClusterSelector.tsx 26-31 and 35).
listResolved(call, data) ==
  LET running == FirstRunning(data)
      select == NoneSelected(call) /\ Len(data) > 0 /\ running # None
  IN /\ call.kind = "list"
     /\ clusters' = data
     /\ clusterId' = IF select THEN running[1] ELSE clusterId
     /\ procs' = IF select THEN Disturbed(procs) ELSE procs
     /\ loading' = FALSE
     /\ clusterCalls' = clusterCalls \ {call}
     /\ lastOp' = Listed(call, data)
     /\ ClusterRestSame

\* The listing fails (ClusterSelector.tsx 32-35).
listRejected(call) ==
  /\ call.kind = "list"
  /\ loading' = FALSE
  /\ clusterCalls' = clusterCalls \ {call}
  /\ lastOp' = Op("other")
  /\ UNCHANGED <<clusterId, procs, clusters>>
  /\ ClusterRestSame

\* The items of the Select are the clusters listed (ClusterSelector.tsx 74, 89-97).
selectCluster ==
  \E i \in DOMAIN clusters : onSelect(clusters[i].cluster_id)

\* clusters.find(c => c.cluster_id === selectedId) (ClusterSelector.tsx 48)
activeCluster ==
  IF \E i \in DOMAIN clusters : clusters[i].cluster_id = clusterId
  THEN Some(clusters[CHOOSE i \in DOMAIN clusters : clusters[i].cluster_id = clusterId])
  ELSE None

SetState(cs, id, state) ==
  [i \in DOMAIN cs |-> IF cs[i].cluster_id = id THEN [cs[i] EXCEPT !.state = state]
                       ELSE cs[i]]

\* The optimistic state of handleStart and handleStop (ClusterSelector.tsx 58, 69).
Optimistic(kind) == IF kind = "start" THEN "PENDING" ELSE "TERMINATING"

Pressed(kind) ==
  [op |-> "press", kind |-> kind, id |-> clusterId, pre |-> clusters]

\* handleStart and handleStop (ClusterSelector.tsx 50-70): the request is
\* handed to toast.promise and the state is set without waiting for it.
press(kind) ==
  /\ clusterId # NoCluster
  /\ clusters' = SetState(clusters, clusterId, Optimistic(kind))
  /\ clusterCalls' = clusterCalls \cup
       {[kind |-> kind, id |-> clusterId, prior |-> activeCluster[1].state]}
  /\ lastOp' = Pressed(kind)
  /\ UNCHANGED <<clusterId, procs, loading>>
  /\ ClusterRestSame

\* The Start button is there for a TERMINATED cluster and the Stop button
\* for a RUNNING or PENDING one (ClusterSelector.tsx 102-117).
handleStart ==
  /\ activeCluster # None
  /\ activeCluster[1].state = "TERMINATED"
  /\ press("start")
handleStop ==
  /\ activeCluster # None
  /\ activeCluster[1].state \in {"RUNNING", "PENDING"}
  /\ press("stop")

\* The clusters after a start or a stop failed: toast.promise shows the
\* error and nothing sets the clusters (ClusterSelector.tsx 52-56, 63-67).
AfterFailure_RolledBack(cs, call) == SetState(cs, call.id, call.prior)
AfterFailure(cs, call) == cs

CallSettled(call, failed) ==
  [op |-> "settled", kind |-> call.kind, id |-> call.id, failed |-> failed,
   pre |-> clusters]

\* The reply to a start or a stop, or its failure.
clusterCallSettled(call, failed) ==
  /\ call.kind \in {"start", "stop"}
  /\ clusters' = IF failed THEN AfterFailure(clusters, call) ELSE clusters
  /\ clusterCalls' = clusterCalls \ {call}
  /\ lastOp' = CallSettled(call, failed)
  /\ UNCHANGED <<clusterId, procs, loading>>
  /\ ClusterRestSame

ClusterNext ==
  \/ loadClusters
  \/ \E call \in clusterCalls, data \in Listings : listResolved(call, data)
  \/ \E call \in clusterCalls : listRejected(call)
  \/ selectCluster
  \/ handleStart
  \/ handleStop
  \/ \E call \in clusterCalls, failed \in BOOLEAN : clusterCallSettled(call, failed)

\* The run buttons of the cells alone.
RunCellNext ==
  \/ \E cid \in ClusterIds : onSelect(cid)
  \/ \E id \in CellIds(cells) : executeCell(id)
  \/ \E p \in procs, r \in Results : executeCellResolved(p, r)
  \/ \E p \in procs : executeCellRejected(p)

\* The run buttons and the editors of the cells.
ChangeNext ==
  \/ RunCellNext
  \/ \E id \in CellIds(cells), v \in CellEdits : handleCellChange(id, v)


(***************************************************************************)
(* Data sources (appStore.ts 78-101) and the upload flows.  Home.tsx 10    *)
(* mounts UploadZone while isConnected is false and VisualizationCanvas,   *)
(* which holds the AddDataSourceDropdown and the remove buttons, while it  *)
(* is true.  A component that mounts starts from its useState values; the  *)
(* batches of an instance that was unmounted go on, and their              *)
(* setIsUploading reaches no component.                                    *)
(***************************************************************************)
\* The selections of files: every length up to MaxFiles, the names
\* alternating between two files of different types.
FileName(k) == IF k % 2 = 1 THEN <<"a", "csv">> ELSE <<"b", "xlsx">>
FileLists == {[k \in 1..n |-> FileName(k)] : n \in 0..MaxFiles}

\* file.name.split('.').pop()
Extension(name) == name[Len(name)]
FileType(name) ==
  IF Extension(name) = "csv" THEN "csv"
  ELSE IF Extension(name) = "json" THEN "json" ELSE "excel"

UploadInit ==
  /\ uploads = {}
  /\ nextBid = 0
  /\ zoneUploading = FALSE
  /\ dropUploading = FALSE
  /\ removed = {}

SourceIds == {dataSources[i].id : i \in DOMAIN dataSources}

NewSource(source) ==
  [name |-> source.name, type |-> source.type, status |-> source.status,
   id |-> Uuid(uuid + 1), connectedAt |-> NewDate]

addDataSource(source) ==
  /\ uuid' = uuid + 1
  /\ dataSources' = Append(dataSources, NewSource(source))
  /\ isConnected' = TRUE
  /\ UNCHANGED aiMessages
  /\ QueriesSame /\ UISame
  /\ Persist

\* `isConnected: newSources.length > 0` (appStore.ts 98)
ConnectedAfterRemove_Kept(newSources) == isConnected
ConnectedAfterRemove(newSources) == Len(newSources) > 0

removeDataSource(id) ==
  /\ dataSources' = SelectSeq(dataSources, LAMBDA s : s.id # id)
  /\ isConnected' = ConnectedAfterRemove(dataSources')
  /\ UNCHANGED <<aiMessages, uuid>>
  /\ QueriesSame /\ UISame
  /\ Persist

UpRestSame == UNCHANGED <<addFromInit, addBase, addNumbers, nbVars, chatVars>>

\* The argument of addDataSource for a file whose upload failed or did not.
UploadedSource_Connected(file, failed) ==
  [name |-> file, type |-> FileType(file), status |-> "connected"]
UploadedSource(file, failed) ==
  [name |-> file, type |-> FileType(file),
   status |-> IF failed THEN "error" ELSE "connected"]

NewBatch(via, files) ==
  [bid |-> nextBid + 1, via |-> via, files |-> files, at |-> 0,
   issued |-> <<>>, log |-> <<>>, live |-> TRUE]

UploadEnded(b) ==
  [op |-> "upload:ended", bid |-> b.bid, via |-> b.via, files |-> b.files,
   issued |-> b.issued, log |-> b.log, live |-> b.live]

\* The batches of the instances of `via`, when that component is unmounted.
Unmounted(ups, via) ==
  {IF b.via = via THEN [b EXCEPT !.live = FALSE] ELSE b : b \in ups}

\* setIsUploading(true) and the loop up to its first await, or, for no
\* file, to setIsUploading(false).
StartBatch(b) ==
  /\ nextBid < MaxBatches
  /\ nextBid' = nextBid + 1
  /\ IF b.files = <<>>
     THEN /\ uploads' = uploads
          /\ lastOp' = UploadEnded(b)
     ELSE /\ uploads' = uploads \cup {[b EXCEPT !.at = 1, !.issued = <<b.files[1]>>]}
          /\ lastOp' = Op("other")
  /\ UNCHANGED <<storeVars, removed>>
  /\ UpRestSame

\* UploadZone: handleDrop and handleFileInputChange hand the files to
\* uploadFilesToBackend (part_002 40-88); the zone takes no pointer event
\* while isUploading (part_002 161).
uploadFilesToBackend(files) ==
  /\ ~isConnected
  /\ ~zoneUploading
  /\ StartBatch(NewBatch("UploadZone", files))
  /\ zoneUploading' = (files # <<>>)
  /\ UNCHANGED dropUploading

\* AddDataSourceDropdown (AddDataSourceDropdown.tsx 39-69): isUploading is
\* set and never read.
handleFileInputChange(files) ==
  /\ isConnected
  /\ StartBatch(NewBatch("AddDataSourceDropdown", files))
  /\ dropUploading' = (files # <<>>)
  /\ UNCHANGED zoneUploading

\* The reply to the request of batch b for its file at b.at, or its
\* failure: the entry is added, and the loop goes on to the next file or ends
\* with setIsUploading(false).
uploadSettled(b, failed) ==
  LET file == b.files[b.at]
      src == UploadedSource(file, failed)
      b1 == [b EXCEPT !.log = Append(@, [file |-> file, failed |-> failed,
                                          source |-> NewSource(src)]),
                      !.live = @ /\ b.via = "AddDataSourceDropdown"]
      ended == b.at = Len(b.files)
      b2 == [b1 EXCEPT !.at = b.at + 1, !.issued = Append(@, b.files[b.at + 1])]
      others == IF isConnected THEN uploads \ {b}
                ELSE Unmounted(uploads \ {b}, "UploadZone")
  IN
  /\ addDataSource(src)
  /\ uploads' = IF ended THEN others ELSE others \cup {b2}
  /\ lastOp' = IF ended THEN UploadEnded(b1) ELSE Op("other")
  /\ zoneUploading' = FALSE
  /\ dropUploading' = IF ~isConnected THEN FALSE
                      ELSE IF ended /\ b1.live THEN FALSE ELSE dropUploading
  /\ UNCHANGED <<nextBid, removed>>
  /\ UpRestSame

\* A remove button of VisualizationCanvas (VisualizationCanvas.tsx 91).
onRemove(id) ==
  /\ isConnected
  /\ Cardinality(removed) < MaxRemovals
  /\ removeDataSource(id)
  /\ removed' = removed \cup {id}
  /\ uploads' = IF isConnected' THEN uploads
                ELSE Unmounted(uploads, "AddDataSourceDropdown")
  /\ dropUploading' = IF isConnected' THEN dropUploading ELSE FALSE
  /\ lastOp' = Op("other")
  /\ UNCHANGED <<nextBid, zoneUploading>>
  /\ UpRestSame

UploadNext ==
  \/ \E files \in FileLists : uploadFilesToBackend(files)
  \/ \E files \in FileLists : handleFileInputChange(files)
  \/ \E b \in uploads, failed \in BOOLEAN : uploadSettled(b, failed)
  \/ \E id \in SourceIds : onRemove(id)


(***************************************************************************)
(* Texts.  A text is a sequence of tokens: "w" is a letter, " " and "\n"   *)
(* are white space, Fence is a run of three backticks, "-" a hyphen,       *)
(* Bullet the character U+2022 and the three tokens of Mojibake the        *)
(* characters U+00E2 U+20AC U+00A2 the source compares a line with.  The   *)
(* words of the section titles are one token each; the regular expression  *)
(* that finds them ignores case, and the tokens stand for every casing.    *)
(***************************************************************************)
Fence == "fence"
Bullet == "U+2022"
Mojibake == <<"U+00E2", "U+20AC", "U+00A2">>
WordTokens == {"w", "Suggestions", "Suggested", "Next", "Steps"}
SpaceTokens == {" ", "\n"}

Includes(s, t) == \E i \in DOMAIN s : s[i] = t
StartsWith(s, pre) == Len(s) >= Len(pre) /\ SubSeq(s, 1, Len(pre)) = pre
From(s, i) == SubSeq(s, i, Len(s))

\* The first index at or after `from` that holds the token t, or 0.
IndexOf(s, t, from) ==
  IF \E i \in from..Len(s) : s[i] = t
  THEN CHOOSE i \in from..Len(s) : s[i] = t /\ \A j \in from..(i - 1) : s[j] # t
  ELSE 0

\* String.prototype.trim
RECURSIVE TrimStart(_)
TrimStart(s) ==
  IF s # <<>> /\ Head(s) \in SpaceTokens THEN TrimStart(Tail(s)) ELSE s
RECURSIVE TrimEnd(_)
TrimEnd(s) ==
  IF s # <<>> /\ s[Len(s)] \in SpaceTokens
  THEN TrimEnd(SubSeq(s, 1, Len(s) - 1)) ELSE s
Trim(s) == TrimEnd(TrimStart(s))

\* split('\n')
RECURSIVE Split(_)
Split(s) ==
  LET i == IndexOf(s, "\n", 1)
  IN IF i = 0 THEN <<s>> ELSE <<SubSeq(s, 1, i - 1)>> \o Split(From(s, i + 1))

(***************************************************************************)
(* The parsing of a reply (AIAssistant.tsx 85-113).                        *)
(***************************************************************************)
\* (?:\w+)? and \n? are greedy and what follows them matches any text, so
\* they take all they can.
RECURSIVE SkipWord(_, _)
SkipWord(s, i) ==
  IF i <= Len(s) /\ s[i] \in WordTokens THEN SkipWord(s, i + 1) ELSE i
SkipNewline(s, i) == IF i <= Len(s) /\ s[i] = "\n" THEN i + 1 ELSE i

\* /```(?:\w+)?\n?([\s\S]*?)```/: the first fence that has a fence after
\* it, the tag and the newline after it, and the text up to the next fence.
codeMatch(s) ==
  LET open == IndexOf(s, Fence, 1)
      body == IF open = 0 THEN 0 ELSE SkipNewline(s, SkipWord(s, open + 1))
      close == IF open = 0 THEN 0 ELSE IndexOf(s, Fence, body)
  IN [found |-> open # 0 /\ close # 0, index |-> open, body |-> body,
      close |-> close]

\* replace(/```(?:\w+)?\n?[\s\S]*?```/g, ''): every match, left to right.
RECURSIVE RemoveCodeBlocks(_)
RemoveCodeBlocks(s) ==
  LET m == codeMatch(s)
  IN IF ~m.found THEN s
     ELSE SubSeq(s, 1, m.index - 1) \o RemoveCodeBlocks(From(s, m.close + 1))

SectionTitles ==
  { <<"Suggestions", ":">>, <<"Suggested", " ", "Next", " ", "Steps", ":">> }
TitleAt(s, i) == {t \in SectionTitles : StartsWith(From(s, i), t)}

\* /(?:^|\n)(?:Suggestions|Suggested Next Steps):([\s\S]*)$/i: the leftmost
\* title that starts the text or follows a newline.  `index` is the number
\* of tokens before the match and `body` the index of the first token after
\* the colon.
SectionStarts(s) ==
  {i \in 1..Len(s) : TitleAt(s, i) # {} /\ (i = 1 \/ s[i - 1] = "\n")}
suggestionMatch(s) ==
  IF SectionStarts(s) = {} THEN [found |-> FALSE, index |-> 0, body |-> 0]
  ELSE LET i == CHOOSE i \in SectionStarts(s) : \A j \in SectionStarts(s) : i <= j
           title == CHOOSE t \in TitleAt(s, i) : TRUE
       IN [found |-> TRUE, index |-> IF i = 1 THEN 0 ELSE i - 2,
           body |-> i + Len(title)]

IsSuggestionLine(line) == StartsWith(line, <<"-">>) \/ StartsWith(line, Mojibake)

\* substring(1)
Substring1(line) == IF line = <<>> THEN <<>> ELSE Tail(line)

ParseSuggestions(suggestionText) ==
  LET lines == Map(Split(suggestionText), Trim)
      kept == SelectSeq(lines, IsSuggestionLine)
  IN Map(kept, LAMBDA line : Trim(Substring1(line)))

Truthy(text) == text # None /\ text[1] # <<>>

ParseResponse(response) ==
  LET hasFence == Includes(response, Fence)
      cm == codeMatch(response)
      code == IF hasFence /\ cm.found
              THEN Some(Trim(SubSeq(response, cm.body, cm.close - 1)))
              ELSE None
      fullResponse == IF hasFence /\ Truthy(code)
                      THEN Trim(RemoveCodeBlocks(response)) ELSE response
      sm == suggestionMatch(fullResponse)
      suggestions == IF sm.found
                     THEN ParseSuggestions(From(fullResponse, sm.body)) ELSE <<>>
      content == IF sm.found
                 THEN Trim(SubSeq(fullResponse, 1, sm.index)) ELSE fullResponse
  IN [content |-> content, code |-> code,
      suggestions |-> IF Len(suggestions) > 0 THEN Some(suggestions) ELSE None]

(***************************************************************************)
(* The replies of the backend.  A reply is prose, then fenced blocks, each *)
(* an opening fence with an optional language tag, a newline, the inner    *)
(* text and the closing fence, then an optional suggestions section: a     *)
(* title and one line for each suggestion.                                 *)
(***************************************************************************)
Proses == {<<>>, <<"w">>, <<"w", "\n">>, <<" ", "w">>}
Langs == {<<>>, <<"w">>}
Inners == {<<>>, <<"w">>, <<"w", "\n">>}
Markers == {<<"-">>, <<Bullet>>, Mojibake, <<>>}
SessionIds == {"session-1"}

Blocks == [lang : Langs, inner : Inners]
Lines == [marker : Markers, text : {<<" ", "w">>}]
Sections == [title : SectionTitles,
             lines : UNION {[1..n -> Lines] : n \in 0..MaxLines}]
Replies ==
  [prose : Proses,
   blocks : UNION {[1..n -> Blocks] : n \in 0..MaxBlocks},
   section : {None} \cup {Some(sec) : sec \in Sections},
   session_id : SessionIds]

Flatten(ss) ==
  LET RECURSIVE F(_)
      F(i) == IF i > Len(ss) THEN <<>> ELSE ss[i] \o F(i + 1)
  IN F(1)

RenderBlock(b) == <<Fence>> \o b.lang \o <<"\n">> \o b.inner \o <<Fence>>
RenderLine(l) == <<"\n">> \o l.marker \o l.text
RenderSection(sec) == sec.title \o Flatten(Map(sec.lines, RenderLine))

\* response.response: the blocks follow the prose, one to a line, and the
\* section starts a line of its own.
Render(reply) ==
  LET body == reply.prose \o
              Flatten(Map(reply.blocks, LAMBDA b : RenderBlock(b) \o <<"\n">>))
  IN IF reply.section = None THEN body
     ELSE (IF body = <<>> \/ body[Len(body)] = "\n" THEN body ELSE body \o <<"\n">>)
          \o RenderSection(reply.section[1])

PlainReply == [prose |-> <<"w">>, blocks |-> <<>>, section |-> None,
               session_id |-> "session-1"]
ChipsReply ==
  [prose |-> <<"w">>, blocks |-> <<>>,
   section |-> Some([title |-> <<"Suggestions", ":">>,
                     lines |-> <<[marker |-> <<"-">>, text |-> <<" ", "w">>]>>]),
   session_id |-> "session-1"]

(***************************************************************************)
(* The transcript's geometry.  Lengths are in pixels and scrollTop, which  *)
(* a browser reports in fractions of a pixel, in half pixels.  Every       *)
(* message is MessageHeight high and the container ClientHeight.           *)
(***************************************************************************)
Threshold == 250
Px(n) == 2 * n
Ceil(x) == (x + 1) \div 2
ScrollHeight(ms) ==
  IF Len(ms) * MessageHeight > ClientHeight
  THEN Len(ms) * MessageHeight ELSE ClientHeight
MaxScrollTop(ms) == Px(ScrollHeight(ms) - ClientHeight)
Distance(ms, top) == Px(ScrollHeight(ms) - ClientHeight) - top

\* handleScroll's test (AIAssistant.tsx 40)
isNearBottom(ms, top) == ScrollHeight(ms) - Ceil(top) - ClientHeight < Threshold

\* The places the user scrolls to: the top, the end, and around the
\* threshold above the end.
ScrollStops(ms) ==
  {0} \cup {t \in {MaxScrollTop(ms) - d :
                     d \in {0, Px(Threshold) - 1, Px(Threshold),
                            Px(Threshold) + 1, Px(Threshold) + 2}} : t >= 0}

ChatInit ==
  /\ sends = {}
  /\ nextSid = 0
  /\ isTyping = FALSE
  /\ input = <<>>
  /\ shouldAutoScroll = TRUE
  /\ scrollTop = 0
  /\ listenerAttached = TRUE
  /\ currentSessionId = None
  /\ mounted = TRUE

ChatRestSame == UNCHANGED <<addFromInit, addBase, addNumbers, nbVars, upVars>>

NewMessage(role, content, code, suggestions) ==
  [id |-> Uuid(uuid + 1), role |-> role, content |-> content, code |-> code,
   suggestions |-> suggestions, timestamp |-> NewDate]

\* addAIMessage (appStore.ts 252-264).  The scroll position of the store is
\* left to the scroll handler the new message may set off.
addAIMessage_Prepend(role, content, code, suggestions) ==
  /\ uuid' = uuid + 1
  /\ aiMessages' = <<NewMessage(role, content, code, suggestions)>> \o aiMessages
  /\ UNCHANGED <<isSidebarCollapsed, isAIPanelCollapsed, activeArtifact,
                 activeArtifactCode>>
  /\ SourcesSame /\ QueriesSame
  /\ Persist
addAIMessage(role, content, code, suggestions) ==
  /\ uuid' = uuid + 1
  /\ aiMessages' = Append(aiMessages, NewMessage(role, content, code, suggestions))
  /\ UNCHANGED <<isSidebarCollapsed, isAIPanelCollapsed, activeArtifact,
                 activeArtifactCode>>
  /\ SourcesSame /\ QueriesSame
  /\ Persist

\* The auto-scroll effect after the render with the messages ms and the
\* flag `auto` (AIAssistant.tsx 27-31), and handleScroll for the scroll
\* event it raises when the container moves (AIAssistant.tsx 36-42).  The
\* position it saves is in the record the store persists.
AfterRender(ms, auto) ==
  LET top == IF auto /\ ~isAIPanelCollapsed THEN MaxScrollTop(ms) ELSE scrollTop
      heard == top # scrollTop /\ listenerAttached
  IN /\ scrollTop' = top
     /\ shouldAutoScroll' = IF heard THEN isNearBottom(ms, top) ELSE auto
     /\ aiScrollPosition' = IF heard THEN top ELSE aiScrollPosition

Appended(role, reply) ==
  [op |-> "addAIMessage", role |-> role, reply |-> reply,
   distance |-> Distance(aiMessages, scrollTop), before |-> scrollTop]

setInput(value) ==
  /\ input' = value
  /\ lastOp' = Op("other")
  /\ UNCHANGED <<storeVars, sends, nextSid, isTyping, shouldAutoScroll, scrollTop,
                 listenerAttached, mounted, currentSessionId>>
  /\ ChatRestSame

\* `!userInput.trim()` (AIAssistant.tsx 66)
Blank_Empty(userInput) == userInput = <<>>
Blank(userInput) == Trim(userInput) = <<>>

Rejected(userInput) ==
  [op |-> "handleSend", userInput |-> userInput,
   pre |-> [aiMessages |-> aiMessages, sends |-> sends, isTyping |-> isTyping,
            currentSessionId |-> currentSessionId]]

\* handleSend up to its await (AIAssistant.tsx 64-83).
handleSend(text) ==
  LET userInput == IF Truthy(text) THEN text[1] ELSE input
  IN IF Blank(userInput)
     THEN /\ lastOp' = Rejected(userInput)
          /\ UNCHANGED <<storeVars, chatVars>>
          /\ ChatRestSame
     ELSE /\ AfterRender(Append(aiMessages, NewMessage("user", userInput, None, None)),
                         TRUE)
          /\ addAIMessage("user", userInput, None, None)
          /\ input' = <<>>
          /\ isTyping' = TRUE
          /\ nextSid' = nextSid + 1
          /\ sends' = sends \cup {[sid |-> nextSid + 1, message |-> userInput,
                                   session_id |-> currentSessionId]}
          /\ lastOp' = Appended("user", None)
          /\ UNCHANGED <<listenerAttached, mounted, currentSessionId>>
          /\ ChatRestSame

\* The reply arrives (part_004 49, AIAssistant.tsx 85-113 and 123).
sendResolved(p, reply) ==
  LET parsed == ParseResponse(Render(reply))
  IN /\ currentSessionId' = Some(reply.session_id)
     /\ AfterRender(Append(aiMessages,
                           NewMessage("assistant", parsed.content, parsed.code,
                                      parsed.suggestions)),
                    shouldAutoScroll)
     /\ addAIMessage("assistant", parsed.content, parsed.code, parsed.suggestions)
     /\ isTyping' = FALSE
     /\ sends' = sends \ {p}
     /\ lastOp' = Appended("assistant", Some(reply))
     /\ UNCHANGED <<input, nextSid, listenerAttached, mounted>>
     /\ ChatRestSame

BackendIssue == <<"I encountered an issue connecting to the backend.">>

\* finally { setIsTyping(false) } (AIAssistant.tsx 122-124)
TypingAfterCatch_Kept == isTyping
TypingAfterCatch == FALSE

\* The request failed (AIAssistant.tsx 115-123).
sendRejected_Silent(p) ==
  /\ isTyping' = TypingAfterCatch
  /\ sends' = sends \ {p}
  /\ lastOp' = Op("other")
  /\ UNCHANGED <<storeVars, input, nextSid, shouldAutoScroll, scrollTop,
                 listenerAttached, mounted, currentSessionId>>
  /\ ChatRestSame
sendRejected(p) ==
  /\ AfterRender(Append(aiMessages, NewMessage("assistant", BackendIssue, None, None)),
                 shouldAutoScroll)
  /\ addAIMessage("assistant", BackendIssue, None, None)
  /\ isTyping' = TypingAfterCatch
  /\ sends' = sends \ {p}
  /\ lastOp' = Appended("assistant", None)
  /\ UNCHANGED <<input, nextSid, listenerAttached, mounted, currentSessionId>>
  /\ ChatRestSame

\* The user scrolls the transcript to `top`.  handleScroll saves the
\* position and sets the flag; a flag that turns true runs the auto-scroll
\* effect, which scrolls to the end.
onScroll(top) ==
  LET near == isNearBottom(aiMessages, top)
      end == MaxScrollTop(aiMessages)
      final == IF near /\ ~shouldAutoScroll THEN end ELSE top
  IN /\ ~isAIPanelCollapsed
     /\ top # scrollTop
     /\ IF listenerAttached
        THEN /\ scrollTop' = final
             /\ shouldAutoScroll' = isNearBottom(aiMessages, final)
             /\ aiScrollPosition' = final
        ELSE /\ scrollTop' = top
             /\ UNCHANGED <<shouldAutoScroll, aiScrollPosition>>
     /\ UNCHANGED <<dataSources, isConnected, queries, activeQueryId, aiMessages,
                    isSidebarCollapsed, isAIPanelCollapsed, activeArtifact,
                    activeArtifactCode, uuid>>
     /\ Persist
     /\ lastOp' = Op("other")
     /\ UNCHANGED <<sends, nextSid, isTyping, input, listenerAttached, mounted,
                    currentSessionId>>
     /\ ChatRestSame

\* toggleAIPanel (appStore.ts 275-276).  The collapsed panel has no
\* messages container (AIAssistant.tsx 138-154); the expanded one gets a
\* new container, at its top, and the effect that adds the scroll listener
\* does not run again (AIAssistant.tsx 33-58).
toggleAIPanel ==
  /\ isAIPanelCollapsed' = ~isAIPanelCollapsed
  /\ scrollTop' = 0
  /\ listenerAttached' = FALSE
  /\ UNCHANGED <<dataSources, isConnected, queries, activeQueryId, aiMessages,
                 isSidebarCollapsed, aiScrollPosition, activeArtifact,
                 activeArtifactCode, uuid>>
  /\ Persist
  /\ lastOp' = Op("other")
  /\ UNCHANGED <<sends, nextSid, isTyping, input, shouldAutoScroll,
                 currentSessionId, mounted>>
  /\ ChatRestSame

\* clearAIMessages (appStore.ts 266).  The container of the empty
\* transcript is at its top; the scroll handler hears it move there.
clearAIMessages ==
  LET heard == scrollTop # 0 /\ listenerAttached
  IN /\ aiMessages' = <<>>
     /\ scrollTop' = 0
     /\ shouldAutoScroll' = IF heard THEN isNearBottom(<<>>, 0) ELSE shouldAutoScroll
     /\ aiScrollPosition' = IF heard THEN 0 ELSE aiScrollPosition
     /\ UNCHANGED <<dataSources, isConnected, queries, activeQueryId,
                    isSidebarCollapsed, isAIPanelCollapsed, activeArtifact,
                    activeArtifactCode, uuid>>
     /\ Persist
     /\ lastOp' = Op("clearAIMessages")
     /\ UNCHANGED <<sends, nextSid, isTyping, input, listenerAttached,
                    currentSessionId, mounted>>
     /\ ChatRestSame

\* toggleSidebar (appStore.ts 272-273)
toggleSidebar ==
  /\ isSidebarCollapsed' = ~isSidebarCollapsed
  /\ UNCHANGED <<dataSources, isConnected, queries, activeQueryId, aiMessages,
                 isAIPanelCollapsed, aiScrollPosition, activeArtifact,
                 activeArtifactCode, uuid>>
  /\ Persist
  /\ lastOp' = Op("other")
  /\ UNCHANGED chatVars
  /\ ChatRestSame

\* setActiveArtifact(artifact, code) (appStore.ts 286-287): `code || null`
setActiveArtifact(artifact, code) ==
  /\ activeArtifact' = artifact
  /\ activeArtifactCode' = IF Truthy(code) THEN code[1] ELSE Null
  /\ UNCHANGED <<dataSources, isConnected, queries, activeQueryId, aiMessages,
                 isSidebarCollapsed, isAIPanelCollapsed, aiScrollPosition, uuid>>
  /\ Persist
  /\ lastOp' = Op("other")
  /\ UNCHANGED chatVars
  /\ ChatRestSame

Inputs == {<<"w">>, <<" ">>}
Chips ==
  UNION {Range(aiMessages[i].suggestions[1]) :
           i \in {j \in DOMAIN aiMessages : aiMessages[j].suggestions # None}}

\* The textarea, the send button, the Enter key and the suggestion chips
\* (AIAssistant.tsx 253-320) are there while the panel is open.
onChange == \E v \in Inputs : ~isAIPanelCollapsed /\ input # v /\ setInput(v)
Send(most) ==
  /\ ~isAIPanelCollapsed
  /\ nextSid < most
  /\ \E text \in {None} \cup {Some(c) : c \in Chips} : handleSend(text)

ParserNext ==
  \/ onChange
  \/ Send(MaxParsedSends)
  \/ \E p \in sends, reply \in Replies : sendResolved(p, reply)
  \/ \E p \in sends : sendRejected(p)

ScrollNext ==
  \/ onChange
  \/ Send(MaxSends)
  \/ \E p \in sends, reply \in {PlainReply, ChipsReply} : sendResolved(p, reply)
  \/ \E p \in sends : sendRejected(p)
  \/ \E top \in ScrollStops(aiMessages) : onScroll(top)
  \/ toggleAIPanel


(***************************************************************************)
(* A reload of the page: the store is created again from its initial       *)
(* state and the persisted record, when one was written, is merged over    *)
(* it.  Only the partialized fields come back; activeQueryId, the UI flags *)
(* and the active artifact are the initial ones.                           *)
(***************************************************************************)
Rehydrated(field) == storage[field]

\* The page is loaded again: the store is created and rehydrated, every
\* component starts from its useState values and the handlers that awaited
\* a reply are gone.  The messages container is at its top until the
\* effects of the chat panel run.
Reload ==
  /\ dataSources' = Rehydrated("dataSources")
  /\ queries' = Rehydrated("queries")
  /\ aiMessages' = Rehydrated("aiMessages")
  /\ isConnected' = Rehydrated("isConnected")
  /\ aiScrollPosition' = Rehydrated("aiScrollPosition")
  /\ activeQueryId' = DemoQueryId(1)
  /\ isSidebarCollapsed' = FALSE
  /\ isAIPanelCollapsed' = FALSE
  /\ activeArtifact' = Null
  /\ activeArtifactCode' = Null
  /\ lastOp' = [op |-> "reload",
                pre |-> [isSidebarCollapsed |-> isSidebarCollapsed,
                         isAIPanelCollapsed |-> isAIPanelCollapsed,
                         activeArtifact |-> activeArtifact,
                         activeArtifactCode |-> activeArtifactCode]]
  /\ Persist
  /\ UNCHANGED <<uuid, addFromInit, addBase, addNumbers>>
  /\ clusterId' = NoCluster
  /\ cells' = InitialCells(Find(queries', activeQueryId'))
  /\ procs' = {}
  /\ UNCHANGED <<nextPid, nextCellId, edits>>
  /\ clusters' = <<>>
  /\ loading' = TRUE
  /\ clusterCalls' = {ListCall(NoCluster)}
  /\ uploads' = {}
  /\ zoneUploading' = FALSE
  /\ dropUploading' = FALSE
  /\ UNCHANGED <<nextBid, removed>>
  /\ sends' = {}
  /\ isTyping' = FALSE
  /\ input' = <<>>
  /\ shouldAutoScroll' = TRUE
  /\ scrollTop' = 0
  /\ listenerAttached' = FALSE
  /\ currentSessionId' = None
  /\ mounted' = FALSE
  /\ UNCHANGED nextSid

\* Where the mount of the chat panel leaves the container: the auto-scroll
\* effect scrolls to the end, and the timer of the mount effect puts the
\* container at the saved position, when there is one
\* (AIAssistant.tsx 27-58).
MountScrollTop(ms, saved) ==
  IF saved > 0 /\ saved < MaxScrollTop(ms) THEN saved ELSE MaxScrollTop(ms)

\* The effects of the chat panel after its first render: the listener is
\* added, the container is scrolled and handleScroll saves where it is.
Mount ==
  /\ ~mounted
  /\ mounted' = TRUE
  /\ listenerAttached' = TRUE
  /\ scrollTop' = MountScrollTop(aiMessages, aiScrollPosition)
  /\ aiScrollPosition' = scrollTop'
  /\ shouldAutoScroll' = isNearBottom(aiMessages, scrollTop')
  /\ UNCHANGED <<dataSources, isConnected, queries, activeQueryId, aiMessages,
                 isSidebarCollapsed, isAIPanelCollapsed, activeArtifact,
                 activeArtifactCode, uuid>>
  /\ Persist
  /\ lastOp' = Op("other")
  /\ UNCHANGED <<sends, nextSid, isTyping, input, currentSessionId>>
  /\ ChatRestSame

(***************************************************************************)
(* The query list of the sandbox page (QueryWorkflow.tsx 57-114) and Send  *)
(* to Sandbox (AIAssistant.tsx 127-130) drive the query operations.        *)
(***************************************************************************)
HeldIds == {queries[i].id : i \in DOMAIN queries}

\* The page takes the user's clicks once its effects have run.
ClickQuery ==
  mounted /\ \E id \in HeldIds : setActiveQuery(id) /\ UNCHANGED <<nbVars, upVars, chatVars>>
DeleteQuery ==
  mounted /\ \E id \in HeldIds : removeQuery(id) /\ UNCHANGED <<nbVars, upVars, chatVars>>
SendToSandbox ==
  /\ mounted
  /\ uuid < MaxUuid
  /\ \E p \in Prompts, c \in Codes : addQuery(p, c)
  /\ UNCHANGED <<nbVars, upVars, chatVars>>
UpdateAQuery ==
  /\ mounted
  /\ activeQueryId \in HeldIds
  /\ \E u \in QueryUpdates : updateQuery(activeQueryId, u)
  /\ UNCHANGED <<nbVars, upVars, chatVars>>
ClearActiveQuery ==
  mounted /\ setActiveQuery(Null) /\ UNCHANGED <<nbVars, upVars, chatVars>>

Init == StoreInit /\ HistInit /\ NotebookInit /\ UploadInit /\ ChatInit

QueriesNext ==
  \/ ClickQuery
  \/ DeleteQuery
  \/ SendToSandbox
  \/ UpdateAQuery
  \/ ClearActiveQuery
  \/ Reload
  \/ Mount

SpecQueries == Init /\ [][QueriesNext]_vars
SpecNotebook == Init /\ [][NotebookNext]_vars
SpecRunAll == Init /\ [][RunNext]_vars
SpecRunCell == Init /\ [][RunCellNext]_vars
SpecClusters == Init /\ [][ClusterNext]_vars
SpecChange == Init /\ [][ChangeNext]_vars
SpecUpload == Init /\ [][UploadNext]_vars
SpecParser == Init /\ [][ParserNext]_vars
SpecScroll == Init /\ [][ScrollNext]_vars

\* The backend answers every request it was sent, with a reply or a failure.
Respond(sid) ==
  \E p \in sends :
     /\ p.sid = sid
     /\ \/ \E reply \in {PlainReply, ChipsReply} : sendResolved(p, reply)
        \/ sendRejected(p)
\* The sends and their replies, with the panel collapsed or not.
ChatNext ==
  \/ onChange
  \/ Send(MaxSends)
  \/ \E p \in sends, reply \in {PlainReply, ChipsReply} : sendResolved(p, reply)
  \/ \E p \in sends : sendRejected(p)
  \/ toggleAIPanel
SpecChatFair ==
  Init /\ [][ChatNext]_vars /\ \A sid \in 1..MaxSends : WF_vars(Respond(sid))

\* The artifacts of the queries held, which the user opens, and the close
\* button of the modal (part_001 42).
Artifacts ==
  {<<"artifact", a>> : a \in UNION {Range(queries[i].artifacts) : i \in DOMAIN queries}}
OpenArtifact ==
  /\ mounted
  /\ \E a \in Artifacts, code \in {None, Some(DemoCode(2))} :
       setActiveArtifact(a, code)
CloseArtifact == mounted /\ activeArtifact # Null /\ setActiveArtifact(Null, None)

\* The operations that change the persisted lists, and the reload of the
\* page.
StoreNext ==
  \/ DeleteQuery
  \/ mounted /\ uploadFilesToBackend(<<FileName(1)>>)
  \/ mounted /\ \E b \in uploads, failed \in BOOLEAN : uploadSettled(b, failed)
  \/ mounted /\ \E id \in SourceIds : onRemove(id)
  \/ mounted /\ onChange
  \/ mounted /\ Send(MaxParsedSends)
  \/ mounted /\ \E p \in sends, reply \in {PlainReply, ChipsReply} : sendResolved(p, reply)
  \/ mounted /\ \E p \in sends : sendRejected(p)
  \/ Reload
  \/ Mount

\* The operations on the flags of the interface, with the sends and the
\* upload that give the transcript a length and the store a source.
UINext ==
  \/ mounted /\ uploadFilesToBackend(<<FileName(1)>>)
  \/ mounted /\ \E b \in uploads, failed \in BOOLEAN : uploadSettled(b, failed)
  \/ mounted /\ onChange
  \/ mounted /\ Send(MaxParsedSends)
  \/ mounted /\ \E p \in sends : sendRejected(p)
  \/ mounted /\ \E top \in ScrollStops(aiMessages) : onScroll(top)
  \/ mounted /\ toggleAIPanel
  \/ mounted /\ toggleSidebar
  \/ OpenArtifact
  \/ CloseArtifact
  \/ Reload
  \/ Mount

\* The calls of addDataSource and removeDataSource, the latter with any
\* identifier, held or not.
SourceArgs == {UploadedSource(FileName(k), failed) : k \in 1..2, failed \in BOOLEAN}
AddSource ==
  /\ uuid < MaxUuid
  /\ \E source \in SourceArgs : addDataSource(source)
  /\ lastOp' = Op("addDataSource")
  /\ UNCHANGED <<addFromInit, addBase, addNumbers, nbVars, upVars, chatVars>>
RemoveSource ==
  /\ \E id \in {Uuid(n) : n \in 1..(MaxUuid + 1)} :
       /\ removeDataSource(id)
       /\ lastOp' = [op |-> "removeDataSource", id |-> id, held |-> id \in SourceIds,
                     pre |-> [dataSources |-> dataSources, isConnected |-> isConnected]]
  /\ UNCHANGED <<addFromInit, addBase, addNumbers, nbVars, upVars, chatVars>>

SourcesNext == AddSource \/ RemoveSource \/ Reload \/ Mount

\* Every operation of the store, called as the components call it: the
\* chat, and each other operation on the transcript a message was just
\* appended to.
JustAppended == lastOp.op = "addAIMessage"
OpsNext ==
  \/ onChange
  \/ Send(MaxParsedSends)
  \/ \E p \in sends, reply \in {PlainReply, ChipsReply} : sendResolved(p, reply)
  \/ \E p \in sends : sendRejected(p)
  \/ clearAIMessages
  \/ JustAppended /\ ClickQuery
  \/ JustAppended /\ DeleteQuery
  \/ JustAppended /\ SendToSandbox
  \/ JustAppended /\ UpdateAQuery
  \/ JustAppended /\ ClearActiveQuery
  \/ JustAppended /\ AddSource
  \/ JustAppended /\ RemoveSource
  \/ JustAppended /\ \E top \in ScrollStops(aiMessages) : onScroll(top)
  \/ JustAppended /\ toggleAIPanel
  \/ JustAppended /\ toggleSidebar
  \/ JustAppended /\ OpenArtifact
  \/ JustAppended /\ CloseArtifact

\* handleSendToSandbox (AIAssistant.tsx 127-130).  The sandbox page is the
\* page shown, and navigate('/sandbox') leaves its components as they are.
handleSendToSandbox(code, prompt) ==
  /\ addQuery(prompt, code)
  /\ UNCHANGED <<nbVars, upVars, chatVars>>

\* The messages that show their code and the Send to Sandbox button
\* (AIAssistant.tsx 217), and the press of the button of message i
\* (AIAssistant.tsx 239-246).
CodeMessages == {i \in DOMAIN aiMessages : Truthy(aiMessages[i].code)}
PressSendToSandbox(i) ==
  /\ mounted
  /\ ~isAIPanelCollapsed
  /\ uuid < 2 * MaxParsedSends + MaxSent
  /\ handleSendToSandbox(aiMessages[i].code[1], aiMessages[i].content)

\* Replies with and without a fenced block.
CodeReply == [prose |-> <<"w", "\n">>, blocks |-> <<[lang |-> <<"w">>, inner |-> <<"w">>]>>,
              section |-> None, session_id |-> "session-1"]
BareCodeReply == [prose |-> <<>>, blocks |-> <<[lang |-> <<>>, inner |-> <<"w", "\n">>]>>,
                  section |-> None, session_id |-> "session-1"]

\* The sandbox page: the chat panel, whose messages are sent to the
\* sandbox, beside the query list and the notebook.
SandboxNext ==
  \/ onChange
  \/ Send(MaxParsedSends)
  \/ \E p \in sends, reply \in {PlainReply, CodeReply, BareCodeReply} : sendResolved(p, reply)
  \/ \E p \in sends : sendRejected(p)
  \/ toggleAIPanel
  \/ \E i \in CodeMessages : PressSendToSandbox(i)
  \/ ClickQuery
  \/ DeleteQuery

\* The chat backend (POST /chat/send): a request that names a session is
\* answered in that session, and a request that names none opens a session
\* of its own.
NewSession(sid) ==
  IF sid = 1 THEN "session-1" ELSE IF sid = 2 THEN "session-2" ELSE "session-3"
SessionOf(p) == IF p.session_id # None THEN p.session_id[1] ELSE NewSession(p.sid)
Answer(p) == sendResolved(p, [PlainReply EXCEPT !.session_id = SessionOf(p)])

\* The sends of one panel and what chatService keeps of their replies.
SessionNext ==
  \/ onChange
  \/ Send(MaxSends)
  \/ \E p \in sends : Answer(p)
  \/ \E p \in sends : sendRejected(p)
  \/ toggleAIPanel

SpecSession == Init /\ [][SessionNext]_vars
SpecSandbox == Init /\ [][SandboxNext]_vars
SpecStore == Init /\ [][StoreNext]_vars
SpecOps == Init /\ [][OpsNext]_vars
SpecSources == Init /\ [][SourcesNext]_vars
SpecUI == Init /\ [][UINext]_vars

Next ==
  \/ QueriesNext \/ NotebookNext \/ UploadNext \/ ParserNext \/ ScrollNext
  \/ StoreNext \/ UINext \/ SourcesNext \/ OpsNext \/ SandboxNext \/ SessionNext \/ ClusterNext \/ ChangeNext
Spec == Init /\ [][Next]_vars
(***************************************************************************)
(* Claims about the queries of the store.                                  *)
(***************************************************************************)

\* C2 (as stated): starting from the store's initial state, the numbers the
\* addQuery calls of a run without removeQuery return are 1..N in creation
\* order.
C2_NumbersFromOne ==
  addFromInit => \A k \in DOMAIN addNumbers : addNumbers[k] = k

\* C2 (amended): the addQuery calls of a run without removeQuery create the
\* queries numbered D+1..D+N in creation order, where D is the number of
\* queries held when the run starts; the initial state holds the three demo
\* queries, so a run that starts there creates the numbers 4..N+3.
C2_NumbersFromCount ==
  /\ Len(queries) = addBase + Len(addNumbers)
  /\ \A k \in DOMAIN addNumbers :
       /\ addNumbers[k] = addBase + k
       /\ queries[addBase + k].number = addBase + k
  /\ addFromInit => addBase = Len(DemoQueries)

C2_Witness ==
  /\ addFromInit
  /\ Len(addNumbers) >= 2
  /\ lastOp.op = "addQuery"

\* C3: activeQueryId is none or the id of a query held in queries, in every
\* reachable state, a reload included.
C3_ActiveQueryHeld ==
  activeQueryId = Null \/ activeQueryId \in HeldIds

\* C4: removeQuery(id) of the active query leaves getActiveQuery() none;
\* removeQuery(id) of another query leaves activeQueryId and every other
\* query as they were.
C4_RemoveQueryFrame ==
  [][\A id \in QueryIds : (lastOp'.op = "removeQuery" /\ removeQuery(id)) =>
       /\ activeQueryId = id => getActiveQuery' = None
       /\ activeQueryId # id => activeQueryId' = activeQueryId
       /\ \A i \in DOMAIN queries : queries[i].id # id =>
            \E j \in DOMAIN queries' : queries'[j] = queries[i]
       /\ \A j \in DOMAIN queries' :
            \E i \in DOMAIN queries : queries[i].id # id /\ queries'[j] = queries[i]
       /\ \A j, k \in DOMAIN queries' : j < k =>
            \E i, l \in DOMAIN queries :
               i < l /\ queries[i] = queries'[j] /\ queries[l] = queries'[k]]_vars

C4_Witness ==
  /\ lastOp.op = "removeQuery"
  /\ lastOp.wasActive
  /\ activeQueryId = Null
  /\ Len(queries) >= 2
(***************************************************************************)
(* Claims about runAll.                                                    *)
(***************************************************************************)
RunAllStopped ==
  /\ lastOp.op = "runAll:ended"
  /\ lastOp.outcome \in {"error", "rejected"}
  /\ lastOp.alone

CodeIdsUpTo(S, i) ==
  SelectSeq([j \in 1..i |-> S[j]], LAMBDA c : c.type = "code")

\* What C1 says of a runAll that stopped at the cell at index lastOp.at of
\* the list lastOp.pre it was invoked on, with LaterStatus(c) the status the
\* later cell c is to have.
RunAllFailFast(LaterStatus(_)) ==
  LET S == lastOp.pre
      i == lastOp.at
  IN /\ Len(cells) = Len(S)
     /\ \A j \in DOMAIN S : cells[j].id = S[j].id
     /\ cells[i].status = "error"
     /\ \A p \in procs : p.pid # lastOp.pid
     /\ Len(lastOp.issued) = Len(CodeIdsUpTo(S, i))
     /\ \A k \in DOMAIN lastOp.issued : lastOp.issued[k] = CodeIdsUpTo(S, i)[k].id
     /\ \A j \in (i + 1)..Len(S) :
          /\ cells[j].status = LaterStatus(S[j])
          /\ cells[j].output = S[j].output

\* C1 (as stated): when a code cell resolves to error during runAll, the
\* run stops, no later cell is executed and every later cell has the status
\* it had before runAll was invoked.
C1_LaterCellsKeepStatus ==
  RunAllStopped => RunAllFailFast(LAMBDA c : c.status)

\* C1 (amended): when a code cell resolves to error during runAll, the run
\* stops, no later cell is executed, and every later cell has the status
\* the reset at the start of runAll gave it: running if it was running when
\* runAll was invoked, idle otherwise; its output is the one it had.
C1_LaterCellsAreReset ==
  RunAllStopped =>
    RunAllFailFast(LAMBDA c : IF c.status = "running" THEN "running" ELSE "idle")

C1_Witness ==
  /\ RunAllStopped
  /\ lastOp.outcome = "error"
  /\ \E j \in (lastOp.at + 1)..Len(lastOp.pre) : lastOp.pre[j].status = "success"
  /\ \E j \in (lastOp.at + 1)..Len(lastOp.pre) : lastOp.pre[j].status = "running"
(***************************************************************************)
(* Claims about the upload flows.                                          *)
(***************************************************************************)
PositionOf(id) == CHOOSE i \in DOMAIN dataSources : dataSources[i].id = id

\* C5: when a batch ends, whatever the files and whichever uploads failed,
\* a request was issued for every file, every file produced exactly one
\* DataSource entry, the entry has status error exactly when the upload of
\* its file failed and connected otherwise, and the uploading flag of the
\* component that ran the batch is false.
C5_BatchResilience ==
  lastOp.op = "upload:ended" =>
    LET files == lastOp.files
        log == lastOp.log
    IN /\ lastOp.issued = files
       /\ Len(log) = Len(files)
       /\ \A k \in DOMAIN log :
            /\ log[k].file = files[k]
            /\ log[k].source.name = files[k]
            /\ log[k].source.status = "error" <=> log[k].failed
            /\ log[k].source.status = "connected" <=> ~log[k].failed
            /\ \A j \in DOMAIN log : j # k => log[j].source.id # log[k].source.id
            /\ \/ log[k].source.id \in removed
               \/ Cardinality({i \in DOMAIN dataSources :
                                 dataSources[i] = log[k].source}) = 1
       /\ lastOp.live =>
            IF lastOp.via = "UploadZone" THEN ~zoneUploading ELSE ~dropUploading

C5_Witness ==
  /\ lastOp.op = "upload:ended"
  /\ lastOp.live
  /\ Len(lastOp.files) = 3
  /\ ~lastOp.log[1].failed /\ lastOp.log[2].failed /\ ~lastOp.log[3].failed
  /\ Len(dataSources) >= 3

\* C6: files are uploaded strictly one at a time in the order selected: the
\* request for a file is issued only after the entry of the file before it
\* was added, at most one upload request is outstanding at any time, and
\* the entries are appended in selection order.
C6_OneRequestAtATime ==
  /\ Cardinality(uploads) <= 1
  /\ \A b \in uploads :
       /\ b.at = Len(b.log) + 1
       /\ b.issued = [k \in 1..b.at |-> b.files[k]]
       /\ \A j, k \in DOMAIN b.log :
            (j < k /\ {b.log[j].source.id, b.log[k].source.id} \subseteq SourceIds)
              => PositionOf(b.log[j].source.id) < PositionOf(b.log[k].source.id)
(***************************************************************************)
(* Claims about the chat panel.                                            *)
(***************************************************************************)
LastMessage == aiMessages[Len(aiMessages)]
Replied == lastOp.op = "addAIMessage" /\ lastOp.reply # None
LastReply == lastOp.reply[1]

\* C7: a new message, of the user or of the assistant, appended while the
\* transcript is more than the threshold above its end leaves the
\* transcript where it is; appended while it is within the threshold, it
\* scrolls the transcript to the end.
C7_ScrollSuppression ==
  (lastOp.op = "addAIMessage" /\ ~isAIPanelCollapsed) =>
    /\ lastOp.distance > Px(Threshold) => scrollTop = lastOp.before
    /\ lastOp.distance <= Px(Threshold) => scrollTop = MaxScrollTop(aiMessages)

\* C8: for a reply with no fence and no suggestions section, the stored
\* message has the trimmed reply as content, no code and no suggestions.
C8_PlainTextIdentity ==
  (Replied /\ LastReply.blocks = <<>> /\ LastReply.section = None) =>
    /\ LastMessage.content = Trim(Render(LastReply))
    /\ LastMessage.code = None
    /\ LastMessage.suggestions = None

\* What the lines of a section give when the lines that start with a
\* hyphen or the bullet character are kept and their marker is stripped.
BulletLines(sec) ==
  Map(SelectSeq(sec.lines, LAMBDA l : l.marker \in {<<"-">>, <<Bullet>>}),
      LAMBDA l : Trim(l.text))

\* C9: for a reply made of prose, fenced blocks and a suggestions section,
\* code is the trimmed inner text of the first block, content the trimmed
\* text left before the section once every block is removed, and
\* suggestions the section's lines that start with a hyphen or the bullet
\* character, in order, without the marker and trimmed.
C9_ParserExtraction ==
  (Replied /\ LastReply.blocks # <<>> /\ LastReply.section # None) =>
    /\ LastMessage.code = Some(Trim(LastReply.blocks[1].inner))
    /\ LastMessage.content =
         Trim(LastReply.prose \o [k \in 1..Len(LastReply.blocks) |-> "\n"])
    /\ LastMessage.suggestions =
         IF BulletLines(LastReply.section[1]) = <<>> THEN None
         ELSE Some(BulletLines(LastReply.section[1]))

\* C10: every assistant message with its code field set, an empty code
\* included, has a content with no fenced block and no suggestions section,
\* and its code is the inner text of a fenced block of the reply.
C10_CodeMessage ==
  /\ \A i \in DOMAIN aiMessages :
       (aiMessages[i].role = "assistant" /\ aiMessages[i].code # None) =>
         /\ ~codeMatch(aiMessages[i].content).found
         /\ ~suggestionMatch(aiMessages[i].content).found
  /\ (Replied /\ LastMessage.code # None) =>
       \E k \in DOMAIN LastReply.blocks :
          LastMessage.code = Some(Trim(LastReply.blocks[k].inner))
(***************************************************************************)
(* Claims about the notebook's cells.                                      *)
(***************************************************************************)
RanWithoutCluster == lastOp.op = "executeCell" /\ lastOp.clusterId = NoCluster

\* C11 (as stated): executeCell of any cell, code or markdown, while no
\* cluster is selected reports an error, issues no request and leaves the
\* cell list as it was.
C11_NoClusterNoChange ==
  RanWithoutCluster =>
    /\ lastOp.toast
    /\ ~lastOp.request
    /\ \A p \in procs : p.clusterId # NoCluster
    /\ cells = lastOp.pre

\* C11 (amended): executeCell of a code cell while no cluster is selected
\* reports an error, issues no request and leaves the cell list as it was;
\* executeCell of a markdown cell issues no request and reports no error,
\* sets the status of that cell to success and leaves every other field
\* and every other cell as they were.
C11_NoClusterCodeOrMarkdown ==
  RanWithoutCluster =>
    /\ ~lastOp.request
    /\ \A p \in procs : p.clusterId # NoCluster
    /\ IF lastOp.type = "code"
       THEN lastOp.toast /\ cells = lastOp.pre
       ELSE /\ ~lastOp.toast
            /\ Len(cells) = Len(lastOp.pre)
            /\ \A i \in DOMAIN cells :
                 IF lastOp.pre[i].id = lastOp.id
                 THEN cells[i] = [lastOp.pre[i] EXCEPT !.status = "success"]
                 ELSE cells[i] = lastOp.pre[i]

C11_Witness ==
  /\ RanWithoutCluster
  /\ lastOp.type = "code"
  /\ CellOf(lastOp.pre, lastOp.id).output # None
  /\ lastOp.toast

\* The pending runAll loops and the cell each of them has set to running.
RunAlls == {p \in procs : p.kind = "runAll"}
RunningByRunAll ==
  {p.cells[p.at].id : p \in {q \in RunAlls :
     \E i \in DOMAIN cells : cells[i].id = q.cells[q.at].id /\ cells[i].status = "running"}}

\* The runAll loops that set a cell to running in the step.
Started == {p \in RunAlls' : ~\E q \in procs : q.pid = p.pid /\ q.at = p.at}

\* C12: whatever else the user presses while a runAll is in progress, when
\* the loop sets a cell to running every cell before it in the order has
\* reached success or error, and no two cells are running because of
\* runAll.
C12_RunAllSequential ==
  [][/\ Cardinality(RunningByRunAll') <= 1
     /\ \A p \in Started : \A j \in 1..(p.at - 1) : \A i \in DOMAIN cells' :
          cells'[i].id = p.cells[j].id => cells'[i].status \in {"success", "error"}]_vars

\* The sends whose request the step resolves.
Settled == {p \in sends : p \notin sends'}

\* C13: when the request of a send resolves, with a reply or a failure, the
\* typing indicator is false after the step; and when the backend answers
\* every request, a typing indicator that is true is false later.
C13_TypingCleared ==
  /\ [][Settled # {} => ~isTyping']_vars
  /\ isTyping ~> ~isTyping

C13_Witness ==
  /\ lastOp.op = "addAIMessage"
  /\ lastOp.role = "assistant"
  /\ lastOp.reply = None
  /\ sends # {}
  /\ ~isTyping

\* C14: a send whose input is empty or white space only leaves the
\* transcript, the pending requests, the typing indicator and the session
\* identifier as they were; no message of the user in the transcript and no
\* request sent has such an input.
C14_BlankSendRejected ==
  /\ (lastOp.op = "handleSend" /\ Trim(lastOp.userInput) = <<>>) =>
       /\ aiMessages = lastOp.pre.aiMessages
       /\ sends = lastOp.pre.sends
       /\ isTyping = lastOp.pre.isTyping
       /\ currentSessionId = lastOp.pre.currentSessionId
  /\ \A i \in DOMAIN aiMessages :
       aiMessages[i].role = "user" => Trim(aiMessages[i].content) # <<>>
  /\ \A p \in sends : Trim(p.message) # <<>>

C14_Witness ==
  /\ lastOp.op = "handleSend"
  /\ lastOp.userInput = <<" ">>
  /\ isTyping
  /\ sends # {}
  /\ aiMessages # <<>>

Count(role) == Cardinality({i \in DOMAIN aiMessages : aiMessages[i].role = role})
Unanswered == Cardinality(sends)

\* C15: every accepted send has appended one message of the user, with the
\* text sent, by the time its request is out, and one message of the
\* assistant once the request has resolved and none before: the parsed
\* reply, or after a failure the fixed error text with no code and no
\* suggestions.
C15_OneReplyPerSend ==
  /\ Count("user") = nextSid
  /\ Count("assistant") = nextSid - Unanswered
  /\ Len(aiMessages) = Count("user") + Count("assistant")
  /\ \A p \in sends :
       \E i \in DOMAIN aiMessages :
          aiMessages[i].role = "user" /\ aiMessages[i].content = p.message
  /\ (lastOp.op = "addAIMessage" /\ lastOp.role = "assistant") =>
       /\ LastMessage.role = "assistant"
       /\ IF lastOp.reply = None
          THEN /\ LastMessage.content = BackendIssue
               /\ LastMessage.code = None
               /\ LastMessage.suggestions = None
          ELSE LET parsed == ParseResponse(Render(LastReply))
               IN /\ LastMessage.content = parsed.content
                  /\ LastMessage.code = parsed.code
                  /\ LastMessage.suggestions = parsed.suggestions

C15_Witness ==
  /\ lastOp.op = "addAIMessage"
  /\ lastOp.role = "assistant"
  /\ lastOp.reply = None
  /\ Len(aiMessages) = 4
  /\ sends = {}
  /\ \E i \in DOMAIN aiMessages : aiMessages[i].suggestions # None


IdleNoOutput(cs) == \A i \in DOMAIN cs : cs[i].status = "idle" /\ cs[i].output = None

\* The step is the user running a cell or all of them.
UserRuns == lastOp'.op = "executeCell" \/ nextPid' # nextPid \/ lastOp'.op = "toast.error"

\* C18: restartKernel with a cluster selected leaves every cell idle with
\* no output, and the step after it leaves them so unless that step is the
\* user running a cell.
C18_RestartResets ==
  [][/\ lastOp'.op = "restartKernel" => IdleNoOutput(cells')
     /\ (lastOp.op = "restartKernel" /\ ~UserRuns) => IdleNoOutput(cells')]_vars

(***************************************************************************)
(* Claims about the store and its persisted record.                        *)
(***************************************************************************)
Reloaded == lastOp.op = "reload"

\* C16: the reload of the page from any reachable state gives back the
\* dataSources, the queries and the aiMessages the store held, every entry
\* with every field and in the same order, a timestamp being equal to the
\* one before when the two are written alike.
C16_RoundTrip ==
  [][Reloaded' =>
       /\ Map(dataSources', SerSource) = Map(dataSources, SerSource)
       /\ Map(queries', SerQuery) = Map(queries, SerQuery)
       /\ Map(aiMessages', SerMessage) = Map(aiMessages, SerMessage)]_vars

C16_Witness ==
  /\ Reloaded
  /\ Len(dataSources) >= 1
  /\ Len(queries) # Len(DemoQueries)
  /\ Len(aiMessages) >= 2
  /\ \E i \in DOMAIN aiMessages : aiMessages[i].suggestions # None

C19_HasAnySource ==
  /\ isConnected <=> dataSources # <<>>
  /\ (lastOp.op = "removeDataSource" /\ ~lastOp.held) =>
       /\ dataSources = lastOp.pre.dataSources
       /\ isConnected = lastOp.pre.isConnected

C19_Witness ==
  /\ lastOp.op = "removeDataSource"
  /\ ~lastOp.held
  /\ lastOp.id \in {Uuid(n) : n \in 1..uuid}
  /\ isConnected
  /\ Len(dataSources) = 1

IsPrefix(a, b) == Len(a) <= Len(b) /\ SubSeq(b, 1, Len(a)) = a

\* C20: every operation of the store but clearAIMessages leaves the
\* transcript it found as a prefix of the transcript it leaves, and
\* addAIMessage leaves a transcript one message longer.
C20_AppendOnly ==
  [][/\ lastOp'.op # "clearAIMessages" => IsPrefix(aiMessages, aiMessages')
     /\ lastOp'.op = "addAIMessage" => Len(aiMessages') = Len(aiMessages) + 1]_vars

C20_Witness ==
  /\ lastOp.op = "removeQuery"
  /\ Len(aiMessages) = 2
  /\ aiMessages[2].role = "assistant"
  /\ dataSources # <<>>

(***************************************************************************)
(* Claims about the sandbox page.                                          *)
(***************************************************************************)
\* The input of the user that the reply at index i of the transcript
\* answers: with one send at a time, the message of the user before it.
OriginatingPrompt(i) ==
  aiMessages[CHOOSE j \in 1..(i - 1) :
               /\ aiMessages[j].role = "user"
               /\ \A k \in (j + 1)..(i - 1) : aiMessages[k].role # "user"].content

NewestQuery == queries[Len(queries)]

\* C21: Send to Sandbox on a message of the assistant with code appends
\* one query, whose code is the code of the message and whose prompt is the
\* input of the user that the message answers, and makes it the active
\* query.
C21_SendToSandbox ==
  [][\A i \in CodeMessages : PressSendToSandbox(i) =>
       /\ Len(queries') = Len(queries) + 1
       /\ SubSeq(queries', 1, Len(queries)) = queries
       /\ NewestQuery'.id \notin HeldIds
       /\ NewestQuery'.code = aiMessages[i].code[1]
       /\ NewestQuery'.prompt = OriginatingPrompt(i)
       /\ activeQueryId' = NewestQuery'.id]_vars

\* The cell of the notebook that the active query seeds (part_003 37-42).
WorkingCellId == 3
\* The step sets the active query: a click in the query list or Send to
\* Sandbox.
ActiveQuerySet == ClickQuery \/ \E i \in CodeMessages : PressSendToSandbox(i)

\* C24: when the active query is set, from the query list or by Send to
\* Sandbox, while the notebook is shown, the source of the working cell is
\* the code of the active query.
C24_ActiveQuerySeedsCell ==
  [][ActiveQuerySet =>
       /\ getActiveQuery' # None
       /\ CellOf(cells', WorkingCellId).code = getActiveQuery'[1].code]_vars

(***************************************************************************)
(* Claims about the session of the chat.                                   *)
(***************************************************************************)
\* The requests the step issues.
Issued == {p \in sends' : p \notin sends}

\* A request issued after p has succeeded: the stored session is one that
\* only such a request opened.
LaterSucceeded(p) ==
  \E k \in (p.sid + 1)..nextSid : currentSessionId = Some(NewSession(k))

\* C22: a request carries no session only when no request before it is
\* pending or has succeeded, and the stored session otherwise; a request
\* that fails leaves the stored session as it was; and the stored session
\* is the one of the most recently issued request that has succeeded.
C22_SessionContinuity ==
  [][/\ \A p \in Issued :
          /\ p.session_id = currentSessionId
          /\ p.session_id = None => sends = {}
     /\ \A p \in Settled :
          IF lastOp'.reply = None \/ LaterSucceeded(p)
          THEN currentSessionId' = currentSessionId
          ELSE currentSessionId' = Some(SessionOf(p))]_vars

(***************************************************************************)
(* Claims about the executions of the notebook.                            *)
(***************************************************************************)
\* The cells a list holds besides the cell `id`, each with its fields.
Others(cs, id) == {cs[i] : i \in {j \in DOMAIN cs : cs[j].id # id}}

\* C23: when the reply to the execution of a code cell arrives, the cell
\* has status error if the result's status is error and success otherwise,
\* and as output the result's error if there is one and its output if not;
\* when the request fails the cell has status error and the fixed message
\* as output; and in both cases every other cell is as it was.
C23_RunCellOutcome ==
  [][\A p \in procs :
       /\ \A r \in Results : executeCellResolved(p, r) =>
            /\ CellOf(cells', p.id).status =
                 (IF r.status = "error" THEN "error" ELSE "success")
            /\ CellOf(cells', p.id).output =
                 (IF r.error # None THEN r.error ELSE r.output)
            /\ Others(cells', p.id) = Others(cells, p.id)
       /\ executeCellRejected(p) =>
            /\ CellOf(cells', p.id).status = "error"
            /\ CellOf(cells', p.id).output = Some(<<"Failed to execute code">>)
            /\ Others(cells', p.id) = Others(cells, p.id)]_vars

\* The cell `id` of the list, when the list holds it.
Held(cs, id) == id \in CellIds(cs)

\* C25: whatever the interleaving of the runs of a cell, of runAll, of
\* clearOutputs and of restartKernel, a code cell that comes to status
\* success or error was running, and a cell that comes to status running
\* has no output.
C25_CellStateMachine ==
  [][\A id \in CellIds(cells) : Held(cells', id) =>
       LET old == CellOf(cells, id)
           new == CellOf(cells', id)
       IN /\ (new.type = "code" /\ new.status \in {"success", "error"}
               /\ new.status # old.status) => old.status = "running"
          /\ (new.status = "running" /\ old.status # "running") => new.output = None]_vars

\* The cells whose source differs from the one in the list the pending
\* execution p was started on: they were changed since.
ChangedSince(p) ==
  {id \in CellIds(cells) \cap CellIds(p.cells) :
     CellOf(cells, id).code # CellOf(p.cells, id).code}

\* The step is the end of the execution p: its reply or its failure.
Completes(p) ==
  \/ \E r \in Results : executeCellResolved(p, r)
  \/ executeCellRejected(p)

\* C26: a change of a cell's source made while the execution of a cell is
\* pending, of that cell or of another, is there after the execution has
\* completed.
C26_ChangeNotLost ==
  [][\A p \in procs : Completes(p) =>
       \A id \in ChangedSince(p) :
          Held(cells', id) /\ CellOf(cells', id).code = CellOf(cells, id).code]_vars

\* C28: when the runs of cells, of two different cells at once included,
\* have all had their reply, no cell is running; and the reply to a run
\* gives the cell of that run the status and the output of the result.
C28_ConcurrentRuns ==
  /\ [](procs = {} => \A i \in DOMAIN cells : cells[i].status # "running")
  /\ [][\A p \in procs, r \in Results : executeCellResolved(p, r) =>
          /\ CellOf(cells', p.id).status = ResultStatus(r)
          /\ CellOf(cells', p.id).output = ResultOutput(r)]_vars

\* C29: while the request of a send is pending, the typing indicator is
\* true, also when another send has had its reply since.
C29_TypingWhilePending ==
  sends # {} => isTyping

(***************************************************************************)
(* Claims about the cluster selector.                                      *)
(***************************************************************************)
StateOf(cs, id) == cs[CHOOSE i \in DOMAIN cs : cs[i].cluster_id = id].state
OtherClusters(cs, id) == {cs[i] : i \in {j \in DOMAIN cs : cs[j].cluster_id # id}}
PendingCall(kind) ==
  \E call \in clusterCalls' : call.kind = kind /\ call.id = clusterId

C30_AutoSelectKeepsChoice ==
  [][\A call \in clusterCalls, data \in Listings : listResolved(call, data) =>
       IF clusterId = NoCluster
       THEN clusterId' = (IF FirstRunning(data) # None THEN FirstRunning(data)[1]
                          ELSE NoCluster)
       ELSE clusterId' = clusterId]_vars
====
